---- MODULE Spec2Model ----
(***************************************************************************)
(* A model of ptz_cli.py: the pan/tilt move command (load_state, clamp,    *)
(* move_servos, save_state), the state file it persists, the pigpio        *)
(* connection it opens and releases, and the rpicam capture wrapper.       *)
(*                                                                         *)
(* Angles are Python floats.  They are modelled as binary floating point   *)
(* numbers with MantBits significant bits and a least spacing of one       *)
(* degree, held as integers; every arithmetic operation rounds to nearest, *)
(* ties to even, as IEEE-754 does.  Python's float has 53 bits.            *)
(***************************************************************************)
EXTENDS Integers, Sequences, FiniteSets, TLC

\* ------------------------------------------------------------------ bounds

\* Significand width of the modelled floating point numbers.
MantBits == 6
\* Longest JSON array tried as the content of the state file.
MaxArr == 2
\* Longest text (in tokens) the capture process and ps write to a stream.
MaxText == 2

\* ------------------------------------------------------- program constants

PAN_PIN == 13
TILT_PIN == 12
\* The tick of the step loop in ms: steps = max(1, int(smooth_ms / 20)).
TickMs == 20
\* cmd_center's smooth_ms.
CenterSmoothMs == 300

\* ---------------------------------------------------------- float arithmetic

Abs(x) == IF x < 0 THEN -x ELSE x

RECURSIVE Pow2(_)
Pow2(n) == IF n <= 0 THEN 1 ELSE 2 * Pow2(n - 1)

\* The exponent of the binade of a/d: the least e >= 0 with a/d < 2^(MantBits+e).
RECURSIVE ExpOf(_, _, _)
ExpOf(a, d, e) == IF a < d * Pow2(MantBits + e) THEN e ELSE ExpOf(a, d, e + 1)

\* a/m (a >= 0, m > 0) rounded to the nearest integer, ties to even.
RoundNearestEven(a, m) ==
    LET q == a \div m
        r == a % m
    IN  IF 2 * r < m THEN q
        ELSE IF 2 * r > m THEN q + 1
        ELSE IF q % 2 = 0 THEN q ELSE q + 1

\* The float nearest to the rational n/d (d > 0).
RoundRat(n, d) ==
    LET a == Abs(n)
        u == Pow2(ExpOf(a, d, 0))
        q == RoundNearestEven(a, d * u) * u
    IN  IF n < 0 THEN -q ELSE q

\* The spacing of the floats around x.
Ulp(x) == Pow2(ExpOf(Abs(x), 1, 0))

fadd(a, b) == RoundRat(a + b, 1)
fsub(a, b) == RoundRat(a - b, 1)
fmul(a, b) == RoundRat(a * b, 1)
fdiv(a, b) == IF b < 0 THEN RoundRat(-a, -b) ELSE RoundRat(a, b)

\* Python's min(a, b) and max(a, b): the first argument unless the second beats it.
PyMin(a, b) == IF b < a THEN b ELSE a
PyMax(a, b) == IF b > a THEN b ELSE a

\* int(a / b) for ints a and b > 0: the quotient truncated toward zero.  (The
\* float quotient of two ints below 2^49 truncates as the exact quotient does.)
TruncDiv(a, b) == IF a >= 0 THEN a \div b ELSE -((-a) \div b)

\* ------------------------------------------------------------- JSON values

Num(n) == [t |-> "num", n |-> n]
Str(s) == [t |-> "str", s |-> s]
Arr(a) == [t |-> "arr", a |-> a]
Obj(items) == [t |-> "obj", items |-> items]
Null == [t |-> "null"]
\* What json.load makes of a text that is not JSON: it raises.
Invalid == [t |-> "invalid"]

Item(k, v) == [k |-> k, v |-> v]

\* The characters of the strings of the model (Python iterates a str by character).
StrChars(s) ==
    CASE s = "" -> <<>>
      [] s = "x" -> <<"x">>
      [] s = "ab" -> <<"a", "b">>
      [] s = "pan" -> <<"p", "a", "n">>
      [] s = "tilt" -> <<"t", "i", "l", "t">>
      [] s = "zoom" -> <<"z", "o", "o", "m">>
      [] s = "pan_min" -> <<"p", "a", "n", "_", "m", "i", "n">>
      [] s = "pan_max" -> <<"p", "a", "n", "_", "m", "a", "x">>
      [] s = "tilt_min" -> <<"t", "i", "l", "t", "_", "m", "i", "n">>
      [] s = "tilt_max" -> <<"t", "i", "l", "t", "_", "m", "a", "x">>
      [] OTHER -> <<s>>

\* ------------------------------------------------------------ Python dicts
\* A dict is the sequence of its items in insertion order.

RECURSIVE IndexOf(_, _, _)
IndexOf(d, k, i) ==
    IF i > Len(d) THEN 0 ELSE IF d[i].k = k THEN i ELSE IndexOf(d, k, i + 1)

HasKey(d, k) == IndexOf(d, k, 1) # 0
Get(d, k) == d[IndexOf(d, k, 1)].v

\* d[k] = v
SetItem(d, k, v) ==
    IF HasKey(d, k) THEN [d EXCEPT ![IndexOf(d, k, 1)].v = v]
    ELSE Append(d, Item(k, v))

DEFAULTS ==
    << Item(Str("pan"), Num(0)), Item(Str("tilt"), Num(0)),
       Item(Str("pan_min"), Num(-90)), Item(Str("pan_max"), Num(90)),
       Item(Str("tilt_min"), Num(-90)), Item(Str("tilt_max"), Num(30)) >>

RECURSIVE UpdateItems(_, _, _)
UpdateItems(d, items, i) ==
    IF i > Len(items) THEN d
    ELSE UpdateItems(SetItem(d, Str(items[i].k), items[i].v), items, i + 1)

Hashable(j) == j.t \in {"num", "str", "null"}

\* dict.update(iterable of pairs): the elements are merged one at a time, so the
\* pairs before the first bad element stay merged when that element raises.
RECURSIVE UpdatePairs(_, _, _)
UpdatePairs(d, a, i) ==
    IF i > Len(a) THEN [d |-> d, raised |-> FALSE]
    ELSE LET e == a[i] IN
         IF e.t = "arr" /\ Len(e.a) = 2 /\ Hashable(e.a[1])
           THEN UpdatePairs(SetItem(d, e.a[1], e.a[2]), a, i + 1)
         ELSE IF e.t = "str" /\ Len(StrChars(e.s)) = 2
           THEN UpdatePairs(SetItem(d, Str(StrChars(e.s)[1]), Str(StrChars(e.s)[2])),
                            a, i + 1)
         ELSE [d |-> d, raised |-> TRUE]

\* dict.update(j) for the value j that json.load returned.
DictUpdate(d, j) ==
    CASE j.t = "obj" -> [d |-> UpdateItems(d, j.items, 1), raised |-> FALSE]
      [] j.t = "arr" -> UpdatePairs(d, j.a, 1)
      [] j.t = "str" -> [d |-> d, raised |-> StrChars(j.s) # <<>>]
      [] OTHER -> [d |-> d, raised |-> TRUE]

\* ---------------------------------------------------------- the state file

Absent == [kind |-> "absent"]
\* A path that exists and cannot be opened for reading.
Unreadable == [kind |-> "unreadable"]
\* A file holding a text of len characters that json.load reads as json.
Text(json, len) == [kind |-> "text", json |-> json, len |-> len]

\* load_state: both except clauses pass, so it returns on every path.
load_state(f) ==
    IF f.kind # "text" THEN DEFAULTS
    ELSE IF f.json = Invalid THEN DEFAULTS
    ELSE DictUpdate(DEFAULTS, f.json).d

\* The length of the text json.dump writes for a float n (repr: "-90.0").
RECURSIVE Digits(_)
Digits(n) == IF n < 10 THEN 1 ELSE 1 + Digits(n \div 10)
NumLen(n) == Digits(Abs(n)) + (IF n < 0 THEN 1 ELSE 0) + 2

\* The length of the text json.dump writes for j (separators ", " and ": ").
RECURSIVE TextLen(_)
RECURSIVE SumLen(_, _)
SumLen(a, i) ==
    IF i > Len(a) THEN 0
    ELSE (IF i > 1 THEN 2 ELSE 0)
         + (IF "k" \in DOMAIN a[i]
              THEN Len(StrChars(a[i].k)) + 4 + TextLen(a[i].v)
              ELSE TextLen(a[i]))
         + SumLen(a, i + 1)
TextLen(j) ==
    CASE j.t = "num" -> NumLen(j.n)
      [] j.t = "str" -> Len(StrChars(j.s)) + 2
      [] j.t = "arr" -> 2 + SumLen(j.a, 1)
      [] j.t = "obj" -> 2 + SumLen(j.items, 1)
      [] OTHER -> 4

\* json.dump(state): the dict as a JSON object, its keys as member names.
ToJson(d) == Obj([i \in 1..Len(d) |-> [k |-> d[i].k.s, v |-> d[i].v]])

\* open(STATE_PATH, 'w'): the file exists and is empty.
Truncated == Text(Invalid, 0)

\* The file after a writer that opened it with 'w' writes its text at offset 0 and
\* closes: a longer text written meanwhile through another handle keeps its tail,
\* and the two together are not JSON.
WriteAt0(cur, j) ==
    IF cur.kind = "text" /\ cur.len > TextLen(j)
      THEN Text(Invalid, cur.len)
      ELSE Text(j, TextLen(j))

\* --------------------------------------------------------------- the moves

map_angle(angle) == fadd(fdiv(fmul(fsub(angle, -90), fsub(1250, 250)), fsub(90, -90)), 250)

clamp(val, lo, hi) == PyMax(lo, PyMin(hi, val))

\* A step count without the floor of one step.
StepCountNoMax(smooth_ms) == TruncDiv(smooth_ms, TickMs)

\* steps = max(1, int(smooth_ms / 20))
StepCount(smooth_ms) == PyMax(1, TruncDiv(smooth_ms, TickMs))

\* An interpolation that starts from 0 instead of the stored angle.
InterpFromZero(start, target, i, steps) == fdiv(fmul(target, i), steps)

\* An interpolation with the sign of the travel slipped.
InterpAway(start, target, i, steps) ==
    fsub(start, fdiv(fmul(fsub(target, start), i), steps))

\* p = start + (target - start) * i / steps
Interp(start, target, i, steps) ==
    fadd(start, fdiv(fmul(fsub(target, start), i), steps))

\* args.pan + (pan if args.relative else 0.0), or the stored angle when the
\* option is absent (None).
Resolve(arg, cur, relative) ==
    IF arg = Null THEN cur ELSE fadd(arg.n, IF relative THEN cur ELSE 0)

\* An update that leaves the angles as they were loaded.
NewStateKeepsAngles(st, pan, tilt, a) ==
    LET s3 == SetItem(st, Str("pan_min"), Num(a.pan_min))
        s4 == SetItem(s3, Str("pan_max"), Num(a.pan_max))
        s5 == SetItem(s4, Str("tilt_min"), Num(a.tilt_min))
    IN  SetItem(s5, Str("tilt_max"), Num(a.tilt_max))

\* state.update({...}) of cmd_move
NewState(st, pan, tilt, a) ==
    LET s1 == SetItem(st, Str("pan"), Num(pan))
        s2 == SetItem(s1, Str("tilt"), Num(tilt))
        s3 == SetItem(s2, Str("pan_min"), Num(a.pan_min))
        s4 == SetItem(s3, Str("pan_max"), Num(a.pan_max))
        s5 == SetItem(s4, Str("tilt_min"), Num(a.tilt_min))
    IN  SetItem(s5, Str("tilt_max"), Num(a.tilt_max))

Args(pan, tilt, relative, smooth_ms, b) ==
    [pan |-> pan, tilt |-> tilt, relative |-> relative, smooth_ms |-> smooth_ms,
     pan_min |-> b[1], pan_max |-> b[2], tilt_min |-> b[3], tilt_max |-> b[4]]

DefaultBounds == <<-90, 90, -90, 30>>

\* The namespace cmd_center builds.
CenterArgs == Args(Num(0), Num(0), FALSE, CenterSmoothMs, DefaultBounds)

\* ------------------------------------------------------------------- state

VARIABLES
    file,        \* the content of STATE_PATH
    pc,          \* where each invocation of the program is
    cmd,         \* the subcommand of each invocation
    args,        \* its parsed arguments
    state,       \* cmd_move's state dict
    pan, tilt,   \* cmd_move's clamped targets
    pi,          \* the pigpio handle of move_servos: "none", "open", "stopped"
    i,           \* the loop index of move_servos
    sent,        \* the set_servo calls that reached the actuator, in order
    raised,      \* whether a set_servo call raised
    exc,         \* the exception that ended the invocation
    saveCalled,  \* whether the invocation called save_state
    startFile,   \* the content of STATE_PATH when the invocation began
    lastWriter,  \* the invocation that last wrote STATE_PATH
    proc,        \* the CompletedProcess of the capture process
    out,         \* the resolved output path of a capture
    printed,     \* what the invocation printed to stdout
    errText      \* what the invocation printed to stderr before it raised

vars == <<file, pc, cmd, args, state, pan, tilt, pi, i, sent, raised, exc,
          saveCalled, startFile, lastWriter, proc, out, printed, errText>>

moveVars == <<state, pan, tilt, pi, i, sent, raised, saveCalled>>

Procs == {1, 2}

NoExc == [type |-> "none"]
NoArgs == [none |-> TRUE]
NoProc == [returncode |-> 0, stdout |-> <<>>, stderr |-> <<>>]

\* An invocation is over: it returned (exit 0) or an exception ended it (exit 1).
Ended(p) == pc[p] \in {"done", "failed"}
CanStart(p) == pc[p] = "idle"

InitWith(f) ==
    /\ file = f
    /\ pc = [p \in Procs |-> "idle"]
    /\ cmd = [p \in Procs |-> "none"]
    /\ args = [p \in Procs |-> NoArgs]
    /\ state = [p \in Procs |-> <<>>]
    /\ pan = [p \in Procs |-> 0]
    /\ tilt = [p \in Procs |-> 0]
    /\ pi = [p \in Procs |-> "none"]
    /\ i = [p \in Procs |-> 0]
    /\ sent = [p \in Procs |-> <<>>]
    /\ raised = [p \in Procs |-> FALSE]
    /\ exc = [p \in Procs |-> NoExc]
    /\ saveCalled = [p \in Procs |-> FALSE]
    /\ startFile = [p \in Procs |-> Absent]
    /\ lastWriter = 0
    /\ proc = [p \in Procs |-> NoProc]
    /\ out = [p \in Procs |-> ""]
    /\ printed = [p \in Procs |-> <<>>]
    /\ errText = [p \in Procs |-> <<>>]

\* What every subcommand starts from: a fresh process.
Fresh(p, c, a) ==
    /\ CanStart(p)
    /\ cmd' = [cmd EXCEPT ![p] = c]
    /\ args' = [args EXCEPT ![p] = a]
    /\ exc' = [exc EXCEPT ![p] = NoExc]
    /\ startFile' = [startFile EXCEPT ![p] = file]
    /\ errText' = [errText EXCEPT ![p] = <<>>]
    /\ pi' = [pi EXCEPT ![p] = "none"]
    /\ i' = [i EXCEPT ![p] = 0]
    /\ sent' = [sent EXCEPT ![p] = <<>>]
    /\ raised' = [raised EXCEPT ![p] = FALSE]
    /\ saveCalled' = [saveCalled EXCEPT ![p] = FALSE]
    /\ proc' = [proc EXCEPT ![p] = NoProc]

StatePan(st) == Get(st, Str("pan")).n
StateTilt(st) == Get(st, Str("tilt")).n

\* cmd_move up to the call of move_servos: load the state, resolve and clamp.
BeginMove(p, c, a) ==
    LET st == load_state(file) IN
    /\ Fresh(p, c, a)
    /\ state' = [state EXCEPT ![p] = st]
    /\ pan' = [pan EXCEPT ![p] =
                 clamp(Resolve(a.pan, StatePan(st), a.relative), a.pan_min, a.pan_max)]
    /\ tilt' = [tilt EXCEPT ![p] =
                 clamp(Resolve(a.tilt, StateTilt(st), a.relative), a.tilt_min, a.tilt_max)]
    /\ pc' = [pc EXCEPT ![p] = "connect"]
    /\ printed' = [printed EXCEPT ![p] = <<>>]
    /\ UNCHANGED <<file, lastWriter, out>>

\* for i in range(1, steps + 1): the body runs while i <= steps.
LoopPc(k, steps) == IF k <= steps THEN "setpan" ELSE "finally"

\* ensure_pigpiod: pigpio.pi(), and once more after starting the daemon.
EnsurePigpiod(p) ==
    /\ pc[p] = "connect"
    /\ \E first \in BOOLEAN, second \in BOOLEAN :
         IF first \/ second
           THEN /\ pi' = [pi EXCEPT ![p] = "open"]
                /\ i' = [i EXCEPT ![p] = 1]
                /\ pc' = [pc EXCEPT ![p] = LoopPc(1, StepCount(args[p].smooth_ms))]
                /\ exc' = exc
           ELSE /\ exc' = [exc EXCEPT ![p] =
                            [type |-> "RuntimeError", msg |-> "pigpio daemon not running"]]
                /\ pc' = [pc EXCEPT ![p] = "failed"]
                /\ UNCHANGED <<pi, i>>
    /\ UNCHANGED <<file, cmd, args, state, pan, tilt, sent, raised, saveCalled,
                   startFile, lastWriter, proc, out, printed, errText>>

\* The set_servo call of step i[p] on a pin.
Update(p, pin) ==
    LET steps == StepCount(args[p].smooth_ms)
        angle == IF pin = PAN_PIN
                   THEN Interp(StatePan(state[p]), pan[p], i[p], steps)
                   ELSE Interp(StateTilt(state[p]), tilt[p], i[p], steps)
    IN  [pin |-> pin, angle |-> angle, duty |-> map_angle(angle)]

\* One set_servo call: it reaches the actuator, or raises into the finally clause.
SetServo(p, pin, ok, next) ==
    /\ IF ok
         THEN /\ sent' = [sent EXCEPT ![p] = Append(@, Update(p, pin))]
              /\ pc' = [pc EXCEPT ![p] = next]
              /\ raised' = raised
         ELSE /\ raised' = [raised EXCEPT ![p] = TRUE]
              /\ pc' = [pc EXCEPT ![p] = "finally"]
              /\ sent' = sent
    /\ UNCHANGED <<file, cmd, args, state, pan, tilt, pi, exc, saveCalled,
                   startFile, lastWriter, proc, out, printed, errText>>

\* set_servo(pi, PAN_PIN, p)
SetPan(p) ==
    /\ pc[p] = "setpan"
    /\ \E ok \in BOOLEAN : SetServo(p, PAN_PIN, ok, "settilt")
    /\ i' = i

\* set_servo(pi, TILT_PIN, t); time.sleep(0.02); the next i
SetTilt(p) ==
    /\ pc[p] = "settilt"
    /\ \E ok \in BOOLEAN :
         /\ SetServo(p, TILT_PIN, ok,
                     LoopPc(i[p] + 1, StepCount(args[p].smooth_ms)))
         /\ i' = IF ok THEN [i EXCEPT ![p] = @ + 1] ELSE i

\* pi.stop() after the loop instead of in a finally clause.
HandleNoFinally(wasRaised) == IF wasRaised THEN "open" ELSE "stopped"

\* The handle after the finally clause of move_servos.
HandleAfterFinally(wasRaised) == "stopped"

\* A finally clause that swallows the exception (a return inside it).
PcSwallow(wasRaised) == "save"

\* Where the invocation goes after the finally clause: the exception of a
\* set_servo call propagates out of cmd_move, past save_state.
PcAfterFinally(wasRaised) == IF wasRaised THEN "failed" ELSE "save"

\* finally: pi.stop()
PiStop(p) ==
    /\ pc[p] = "finally"
    /\ pi' = [pi EXCEPT ![p] = HandleAfterFinally(raised[p])]
    /\ pc' = [pc EXCEPT ![p] = PcAfterFinally(raised[p])]
    /\ exc' = [exc EXCEPT ![p] =
                IF raised[p] THEN [type |-> "pigpio.error", msg |-> "set_servo"]
                ELSE @]
    /\ UNCHANGED <<file, cmd, args, state, pan, tilt, i, sent, raised, saveCalled,
                   startFile, lastWriter, proc, out, printed, errText>>

OSError == [type |-> "OSError", msg |-> "save_state"]

\* state.update(...); save_state: os.makedirs and open(STATE_PATH, 'w')
SaveOpen(p) ==
    /\ pc[p] = "save"
    /\ state' = [state EXCEPT ![p] = NewState(@, pan[p], tilt[p], args[p])]
    /\ saveCalled' = [saveCalled EXCEPT ![p] = TRUE]
    /\ \E ok \in BOOLEAN :
         IF ok
           THEN /\ file' = Truncated
                /\ lastWriter' = p
                /\ pc' = [pc EXCEPT ![p] = "write"]
                /\ exc' = exc
           ELSE /\ exc' = [exc EXCEPT ![p] = OSError]
                /\ pc' = [pc EXCEPT ![p] = "failed"]
                /\ UNCHANGED <<file, lastWriter>>
    /\ UNCHANGED <<cmd, args, pan, tilt, pi, i, sent, raised, startFile,
                   proc, out, printed, errText>>

\* The text save_state writes.
Dumped(p) == ToJson(state[p])

\* json.dump(state, f) and the close of the file; then cmd_move's print.
SaveWrite(p) ==
    /\ pc[p] = "write"
    /\ \E ok \in BOOLEAN :
         IF ok
           THEN /\ file' = WriteAt0(file, Dumped(p))
                /\ lastWriter' = p
                /\ pc' = [pc EXCEPT ![p] = "done"]
                /\ printed' = [printed EXCEPT ![p] = <<Num(pan[p]), Num(tilt[p])>>]
                /\ exc' = exc
           ELSE /\ exc' = [exc EXCEPT ![p] = OSError]
                /\ pc' = [pc EXCEPT ![p] = "failed"]
                /\ UNCHANGED <<file, lastWriter, printed>>
    /\ UNCHANGED <<cmd, args, state, pan, tilt, pi, i, sent, raised, saveCalled,
                   startFile, proc, out, errText>>

\* The process exits; the next invocation is a new process.
Exit(p) ==
    /\ Ended(p)
    /\ pc' = [pc EXCEPT ![p] = "idle"]
    /\ cmd' = [cmd EXCEPT ![p] = "none"]
    /\ args' = [args EXCEPT ![p] = NoArgs]
    /\ state' = [state EXCEPT ![p] = <<>>]
    /\ pan' = [pan EXCEPT ![p] = 0]
    /\ tilt' = [tilt EXCEPT ![p] = 0]
    /\ pi' = [pi EXCEPT ![p] = "none"]
    /\ i' = [i EXCEPT ![p] = 0]
    /\ sent' = [sent EXCEPT ![p] = <<>>]
    /\ raised' = [raised EXCEPT ![p] = FALSE]
    /\ exc' = [exc EXCEPT ![p] = NoExc]
    /\ saveCalled' = [saveCalled EXCEPT ![p] = FALSE]
    /\ startFile' = [startFile EXCEPT ![p] = Absent]
    /\ proc' = [proc EXCEPT ![p] = NoProc]
    /\ out' = [out EXCEPT ![p] = ""]
    /\ printed' = [printed EXCEPT ![p] = <<>>]
    /\ errText' = [errText EXCEPT ![p] = <<>>]
    /\ UNCHANGED <<file, lastWriter>>

\* cmd_status: print the loaded state.
CmdStatus(p) ==
    /\ Fresh(p, "status", NoArgs)
    /\ printed' = [printed EXCEPT ![p] = load_state(file)]
    /\ pc' = [pc EXCEPT ![p] = "done"]
    /\ state' = [state EXCEPT ![p] = <<>>]
    /\ pan' = [pan EXCEPT ![p] = 0]
    /\ tilt' = [tilt EXCEPT ![p] = 0]
    /\ UNCHANGED <<file, lastWriter, out>>

\* ------------------------------------------------------------ the captures
\* A text is a sequence of tokens: pieces of a line, blanks, line breaks.

Whitespace == {" ", "\n"}

RECURSIVE LStrip(_)
LStrip(t) == IF t # <<>> /\ Head(t) \in Whitespace THEN LStrip(Tail(t)) ELSE t
RECURSIVE RStrip(_)
RStrip(t) ==
    IF t # <<>> /\ t[Len(t)] \in Whitespace THEN RStrip(SubSeq(t, 1, Len(t) - 1)) ELSE t
\* str.strip()
Strip(t) == LStrip(RStrip(t))

\* pat in text
Contains(text, pat) ==
    \E k \in 1..(Len(text) - Len(pat) + 1) : SubSeq(text, k, k + Len(pat) - 1) = pat

PipelineInUse == <<"Pipeline handler in use by another process">>
DeviceBusy == <<"Device or resource", " busy">>
FailedToAcquire == <<"failed to acquire camera">>

\* A check of stderr alone.
CombinedStderrOnly(pr) == pr.stderr

\* combined = (proc.stdout or '') + (proc.stderr or '')
Combined(pr) == pr.stdout \o pr.stderr

\* The condition of run_rpicam's if.
IsBusy(combined) ==
    \/ Contains(combined, PipelineInUse)
    \/ Contains(combined, DeviceBusy)
    \/ Contains(combined, FailedToAcquire)

BusyHeader == "Camera appears busy (another process has the device open)."

\* camera_busy_message, given the stdout of the ps pipeline.
camera_busy_message(psout) ==
    <<BusyHeader, "\n",
      "Close any running previews/streams (rpicam-*, libcamera-hello, Vilib).", "\n">>
    \o (IF Strip(psout) # <<>>
          THEN <<"Active camera-related processes:", "\n">> \o Strip(psout)
          ELSE <<"No obvious camera processes found.">>)

RpicamFailed(rc) ==
    [type |-> "RuntimeError", msg |-> "rpicam failed with exit", code |-> rc]

\* What the capture process and ps can write.
Tokens ==
    {"Pipeline handler in use by another process", "Device or resource", " busy",
     "failed to acquire camera", "ERROR: no cameras available", " "}
TextsUpTo(n) == UNION {[1..k -> Tokens] : k \in 0..n}
ReturnCodes == {0, 1, -15}
ProcResults ==
    {[returncode |-> rc, stdout |-> so, stderr |-> se] :
        rc \in ReturnCodes, so \in TextsUpTo(1), se \in TextsUpTo(MaxText)}
PsOutputs == {<<>>, <<" ">>, <<"rpicam-vid --timeout 0", "\n">>}

OutputOpts == {"", "shot"}

\* cmd_photo / cmd_video up to the call of run_rpicam: the output path.
BeginCapture(p, c, o, default) ==
    /\ Fresh(p, c, [output |-> o])
    /\ out' = [out EXCEPT ![p] = IF o = "" THEN default ELSE o]
    /\ pc' = [pc EXCEPT ![p] = "rpicam"]
    /\ printed' = [printed EXCEPT ![p] = <<>>]
    /\ state' = [state EXCEPT ![p] = <<>>]
    /\ pan' = [pan EXCEPT ![p] = 0]
    /\ tilt' = [tilt EXCEPT ![p] = 0]
    /\ UNCHANGED <<file, lastWriter>>

CmdPhoto(p) ==
    \E o \in OutputOpts : BeginCapture(p, "photo", o, "~/Pictures/photo_<stamp>.jpg")

CmdVideo(p) ==
    \E o \in OutputOpts : BeginCapture(p, "video", o, "~/Videos/video_<stamp>.h264")

\* run_rpicam: the capture process runs; exit 0 returns to the caller, which
\* prints the path; a busy device goes on to camera_busy_message; anything else
\* prints the stripped output, if any, and raises.
RunRpicam(p) ==
    /\ pc[p] = "rpicam"
    /\ \E pr \in ProcResults :
         /\ proc' = [proc EXCEPT ![p] = pr]
         /\ IF pr.returncode = 0
              THEN /\ printed' = [printed EXCEPT ![p] = <<out[p]>>]
                   /\ pc' = [pc EXCEPT ![p] = "done"]
                   /\ UNCHANGED <<errText, exc>>
              ELSE IF IsBusy(Combined(pr))
              THEN /\ pc' = [pc EXCEPT ![p] = "busy"]
                   /\ UNCHANGED <<printed, errText, exc>>
              ELSE /\ errText' = [errText EXCEPT ![p] = Strip(Combined(pr))]
                   /\ exc' = [exc EXCEPT ![p] = RpicamFailed(pr.returncode)]
                   /\ pc' = [pc EXCEPT ![p] = "failed"]
                   /\ printed' = printed
    /\ UNCHANGED <<file, cmd, args, moveVars, startFile, lastWriter, out>>

\* print(camera_busy_message(), file=sys.stderr), then the raise.
CameraBusyMessage(p) ==
    /\ pc[p] = "busy"
    /\ \E psout \in PsOutputs :
         errText' = [errText EXCEPT ![p] = camera_busy_message(psout)]
    /\ exc' = [exc EXCEPT ![p] = RpicamFailed(proc[p].returncode)]
    /\ pc' = [pc EXCEPT ![p] = "failed"]
    /\ UNCHANGED <<file, cmd, args, moveVars, startFile, lastWriter, proc, out,
                   printed>>

\* ------------------------------------------------- one invocation at a time

\* Absolute targets, and the deltas of relative moves (Null: the option is absent).
PanOpts == {Null, Num(-90), Num(61)}
TiltOpts == {Null, Num(30)}
PanDeltas == {Null, Num(90)}
TiltDeltas == {Null, Num(30)}
SmoothOpts == {-50, 0, 39, 40, 60}
\* The defaults, a narrower pan range, and a pan range given the wrong way round.
BoundsOpts == {DefaultBounds, <<-45, 45, -90, 30>>, <<10, -10, -90, 30>>}

MoveArgs ==
    {Args(pn, tl, FALSE, ms, b) :
        pn \in PanOpts, tl \in TiltOpts, ms \in SmoothOpts, b \in BoundsOpts}
    \cup
    {Args(pn, tl, TRUE, ms, b) :
        pn \in PanDeltas, tl \in TiltDeltas, ms \in SmoothOpts, b \in BoundsOpts}

CmdMove(p) == \E a \in MoveArgs : BeginMove(p, "move", a)

CmdCenter(p) == BeginMove(p, "center", CenterArgs)

Init == InitWith(Absent)

Next ==
    \/ CmdMove(1)
    \/ CmdCenter(1)
    \/ CmdStatus(1)
    \/ EnsurePigpiod(1)
    \/ SetPan(1)
    \/ SetTilt(1)
    \/ PiStop(1)
    \/ SaveOpen(1)
    \/ SaveWrite(1)
    \/ Exit(1)

Spec == Init /\ [][Next]_vars

\* ---------------------------------------------------- claims about a move

IsMove(p) == cmd[p] \in {"move", "center"}

OnPin(p, pin) == SelectSeq(sent[p], LAMBDA u : u.pin = pin)
Count(p, pin) == Len(OnPin(p, pin))
LastAngle(p, pin) == OnPin(p, pin)[Count(p, pin)].angle

\* The record the invocation loaded, and the record the file holds now.
StartState(p) == load_state(startFile[p])
Persisted == load_state(file)
Field(st, k) == Get(st, Str(k)).n

\* ensure_pigpiod raised, or a set_servo call did.
ActuatorFailed(p) ==
    \/ raised[p]
    \/ pc[p] = "failed" /\ exc[p].type = "RuntimeError"

\* C1: a move or center in which ensure_pigpiod raised or a set_servo call raised
\* never calls save_state, and the state file still holds what it held when the
\* invocation began.
C1_FailedMoveKeepsRecord ==
    \A p \in Procs :
        IsMove(p) /\ ActuatorFailed(p) => ~saveCalled[p] /\ file = startFile[p]

C1_Witness ==
    /\ pc[1] = "failed" /\ raised[1] /\ Len(sent[1]) >= 1
    /\ file.kind = "text" /\ Field(Persisted, "pan") # 0

\* C2: the stored position is within the stored bounds in every record the moves
\* write, whatever bounds the request gave.
C2_PositionWithinBounds ==
    file.kind = "text" /\ file.json.t = "obj" =>
        /\ Field(Persisted, "pan_min") <= Field(Persisted, "pan")
        /\ Field(Persisted, "pan") <= Field(Persisted, "pan_max")
        /\ Field(Persisted, "tilt_min") <= Field(Persisted, "tilt")
        /\ Field(Persisted, "tilt") <= Field(Persisted, "tilt_max")

\* C3: no invocation ends, normally or with an error, holding an open handle.
C3_HandleReleased == \A p \in Procs : Ended(p) => pi[p] # "open"

C3_Witness == pc[1] = "failed" /\ raised[1] /\ Len(sent[1]) >= 1 /\ pi[1] = "stopped"

\* max(1, floor(smooth_ms / 20))
FloorSteps(ms) == IF ms \div TickMs > 1 THEN ms \div TickMs ELSE 1

\* C4: a move whose actuator calls all succeeded sent max(1, floor(smooth_ms / 20))
\* updates to the pan channel and as many to the tilt channel.
C4_UpdateCount ==
    \A p \in Procs :
        IsMove(p) /\ pi[p] = "stopped" /\ ~raised[p] =>
            /\ Count(p, PAN_PIN) = FloorSteps(args[p].smooth_ms)
            /\ Count(p, TILT_PIN) = FloorSteps(args[p].smooth_ms)

C4_Witness ==
    /\ pc[1] = "done" /\ cmd[1] = "move" /\ args[1].smooth_ms < 0
    /\ Count(1, PAN_PIN) = 1 /\ Count(1, TILT_PIN) = 1

\* C5: the last update of a successful move commands exactly the clamped target on
\* both axes, and the record written holds that last commanded pair.
C5_EndpointExact ==
    \A p \in Procs :
        IsMove(p) /\ pc[p] = "done" =>
            /\ LastAngle(p, PAN_PIN) = pan[p]
            /\ LastAngle(p, TILT_PIN) = tilt[p]
            /\ Field(Persisted, "pan") = LastAngle(p, PAN_PIN)
            /\ Field(Persisted, "tilt") = LastAngle(p, TILT_PIN)

\* An absolute request whose targets are the stored angles (an absent option
\* leaves its axis where it is).
TargetsAreCurrent(p) ==
    /\ IsMove(p) /\ ~args[p].relative
    /\ args[p].pan = Null \/ args[p].pan = Num(Field(StartState(p), "pan"))
    /\ args[p].tilt = Null \/ args[p].tilt = Num(Field(StartState(p), "tilt"))

BoundsAreCurrent(p) ==
    \A k \in {"pan_min", "pan_max", "tilt_min", "tilt_max"} :
        args[p][k] = Field(StartState(p), k)

ConstantTrajectory(p) ==
    \A k \in 1..Len(sent[p]) :
        sent[p][k].angle =
            IF sent[p][k].pin = PAN_PIN THEN Field(StartState(p), "pan")
            ELSE Field(StartState(p), "tilt")

Idempotent(p) ==
    /\ ConstantTrajectory(p)
    /\ pc[p] = "done" => Persisted = StartState(p)

\* C6 as stated: an absolute move to the stored position commands that position at
\* every step and leaves the record as it was.
C6_IdempotentAnyBounds == \A p \in Procs : TargetsAreCurrent(p) => Idempotent(p)

\* C6: an absolute move to the stored position, with the stored bounds as its
\* bounds, commands that position at every step and leaves the record as it was.
C6_IdempotentSameBounds ==
    \A p \in Procs : TargetsAreCurrent(p) /\ BoundsAreCurrent(p) => Idempotent(p)

C6_Witness ==
    /\ pc[1] = "done" /\ TargetsAreCurrent(1) /\ BoundsAreCurrent(1)
    /\ args[1].pan # Null /\ args[1].tilt # Null
    /\ Field(StartState(1), "pan") # 0 /\ Len(sent[1]) >= 4

AxisOf(pin) == IF pin = PAN_PIN THEN "pan" ELSE "tilt"
AxisTarget(p, pin) == IF pin = PAN_PIN THEN pan[p] ELSE tilt[p]
AxisMin(p, pin) == IF pin = PAN_PIN THEN args[p].pan_min ELSE args[p].tilt_min
AxisMax(p, pin) == IF pin = PAN_PIN THEN args[p].pan_max ELSE args[p].tilt_max

\* C10 as stated: every angle commanded lies within the bounds of the request.
C10_WithinRequestBounds ==
    \A p \in Procs : \A k \in 1..Len(sent[p]) :
        LET u == sent[p][k] IN
        AxisMin(p, u.pin) <= AxisMax(p, u.pin) =>
            AxisMin(p, u.pin) <= u.angle /\ u.angle <= AxisMax(p, u.pin)

\* The rounding the interpolation between s and t can accumulate.
Tol(s, t) == 2 * Ulp(2 * PyMax(Abs(s), Abs(t)))

\* C10: every angle commanded lies between the stored angle the move starts from
\* and the clamped target, up to the rounding of the interpolation.
C10_BetweenStartAndTarget ==
    \A p \in Procs : \A k \in 1..Len(sent[p]) :
        LET u == sent[p][k]
            s == Field(StartState(p), AxisOf(u.pin))
            t == AxisTarget(p, u.pin)
        IN  /\ PyMin(s, t) - Tol(s, t) <= u.angle
            /\ u.angle <= PyMax(s, t) + Tol(s, t)

\* A start outside the request's bounds: an intermediate angle is outside them too.
C10_Witness ==
    /\ IsMove(1) /\ pc[1] = "done" /\ args[1].pan_min <= args[1].pan_max
    /\ Field(StartState(1), "pan") > args[1].pan_max
    /\ \E k \in 1..Len(sent[1]) :
         sent[1][k].pin = PAN_PIN /\ sent[1][k].angle > args[1].pan_max
    /\ LastAngle(1, PAN_PIN) = args[1].pan_max

\* ------------------------------------------------ two invocations at once

\* A relative pan of +10, and an absolute pan that clamps to -90.
ConcArgs ==
    {Args(Num(10), Null, TRUE, 0, DefaultBounds),
     Args(Num(-100), Null, FALSE, 0, DefaultBounds)}

ConcMove(p) == \E a \in ConcArgs : BeginMove(p, "move", a)

\* Each of the two processes runs one move; nothing orders their steps.
NextConc ==
    \E p \in Procs :
        \/ ConcMove(p)
        \/ EnsurePigpiod(p)
        \/ SetPan(p)
        \/ SetTilt(p)
        \/ PiStop(p)
        \/ SaveOpen(p)
        \/ SaveWrite(p)

SpecConc == Init /\ [][NextConc]_vars

BothDone == \A p \in Procs : pc[p] = "done"

\* The pan a request asks for, from the record its own invocation loaded.
WantedPan(p) ==
    LET s == Field(StartState(p), "pan")
        v == IF args[p].pan = Null THEN s
             ELSE args[p].pan.n + (IF args[p].relative THEN s ELSE 0)
    IN  IF v < args[p].pan_min THEN args[p].pan_min
        ELSE IF v > args[p].pan_max THEN args[p].pan_max ELSE v

Other(p) == CHOOSE q \in Procs : q # p

\* C7: when two concurrent moves both complete, the record is the one the last
\* writer computed from the record it loaded itself, whatever the other wrote in
\* between (or, when the two writes overlapped and the other's text was longer,
\* not a record at all): nothing serialises the invocations.
C7_LastWriterWins ==
    BothDone =>
        \/ /\ file = Text(ToJson(state[lastWriter]), TextLen(ToJson(state[lastWriter])))
           /\ Field(Persisted, "pan") = WantedPan(lastWriter)
        \/ /\ file.json = Invalid
           /\ TextLen(ToJson(state[Other(lastWriter)]))
                > TextLen(ToJson(state[lastWriter]))

\* The two writes overlapped and left a text that is not JSON.
OverlapReached == BothDone /\ file.json = Invalid

\* Two relative pans of +10 from pan = 0 end with pan = 10 stored.
C7_Witness ==
    /\ BothDone
    /\ \A p \in Procs : args[p].relative /\ args[p].pan = Num(10) /\ exc[p] = NoExc
    /\ file.json # Invalid /\ Field(Persisted, "pan") = 10

\* -------------------------------------------------- load_state on any file

Elems ==
    {Num(5), Str("ab"), Str("x"), Arr(<<Str("pan"), Num(5)>>), Arr(<<Num(1)>>),
     Arr(<<Arr(<<>>), Num(2)>>)}
Arrays == {Arr(a) : a \in UNION {[1..n -> Elems] : n \in 0..MaxArr}}
Members == {[k |-> k, v |-> v] : k \in {"pan", "tilt_max", "zoom"}, v \in {Num(5), Str("x")}}
Objects ==
    {Obj(<<>>)} \cup {Obj(<<m>>) : m \in Members}
    \cup {Obj(<<m[1], m[2]>>) : m \in {x \in Members \X Members : x[1].k # x[2].k}}
Scalars == {Num(5), Str(""), Str("ab"), Null}

\* An absent file, an unreadable one, an empty one, a text cut short, and JSON texts.
FileContents ==
    {Absent, Unreadable, Text(Invalid, 0), Text(Invalid, 7)}
    \cup {Text(j, TextLen(j)) : j \in Arrays \cup Objects \cup Scalars}

InitLoad == \E f \in FileContents : InitWith(f)

NextLoad == CmdStatus(1) \/ Exit(1)

SpecLoad == InitLoad /\ [][NextLoad]_vars

IsRecord(f) == f.kind = "text" /\ f.json.t = "obj"

\* C8: load_state returns on every content of the file, and returns exactly the
\* defaults when the file is missing or is not a record.
C8_LoadDefaults ==
    \A p \in Procs :
        cmd[p] = "status" /\ pc[p] = "done" =>
            /\ exc[p] = NoExc
            /\ ~IsRecord(file) => printed[p] = DEFAULTS

\* ------------------------------------------------------- a capture at a time

NextCapture ==
    \/ CmdPhoto(1)
    \/ CmdVideo(1)
    \/ RunRpicam(1)
    \/ CameraBusyMessage(1)
    \/ Exit(1)

SpecCapture == Init /\ [][NextCapture]_vars

IsCapture(p) == cmd[p] \in {"photo", "video"}

\* The combined output holds one of the three contention messages.
Contention(p) ==
    LET all == proc[p].stdout \o proc[p].stderr IN
    \E pat \in {PipelineInUse, DeviceBusy, FailedToAcquire} : Contains(all, pat)

====
